---- MODULE Spec2Model ----
(***************************************************************************)
(* Register configuration layer of the TCS3400 colour sensor driver        *)
(* (src/src/configuration.rs).                                             *)
(*                                                                         *)
(* The driver owns a bus-write capability (self.i2c) and one cached byte   *)
(* (self.enable).  Every public method is modelled as an operator from     *)
(* the driver value to the pair of the driver value it leaves behind and   *)
(* the Result it returns; an action of the state machine is one call of    *)
(* one public method by the application.                                   *)
(*                                                                         *)
(* The bus is modelled by what can be observed of it: the list of the      *)
(* transactions attempted (i2c.sent) and the outcomes the transport gives  *)
(* to the coming transactions (i2c.will), which the environment chooses    *)
(* freely at each call.                                                    *)
(***************************************************************************)
EXTENDS Integers, Sequences, FiniteSets

VARIABLES
    tcs3400,     \* the driver instance: [enable, i2c]
    enable_reg,  \* the byte of the most recent successful write to ENABLE
    last,        \* record of the most recent call
    prev         \* record of the call before it, when that was an ENABLE toggle

vars == <<tcs3400, enable_reg, last, prev>>

----------------------------------------------------------------------------
(* Integer arithmetic of the Rust primitives used by the source.           *)

\* u8 `&`
RECURSIVE BitAnd(_, _)
BitAnd(a, b) ==
    IF a = 0 \/ b = 0 THEN 0
    ELSE ((a % 2) * (b % 2)) + 2 * BitAnd(a \div 2, b \div 2)

\* u8 `|`
BitOr(a, b) == a + b - BitAnd(a, b)

\* u8 `!`
BitNot(a) == 255 - a

\* `as u8` of a u16: truncation to the low byte
AsU8(x) == x % 256

\* u16 `-` (wrapping; the guards of the callers keep it from wrapping)
SubU16(a, b) == (a - b) % 65536

\* u16 `>> 8`
Shr8(x) == x \div 256

----------------------------------------------------------------------------
(* Constants of the crate root (BitFlags, Register, DEVICE_ADDRESS).       *)
(* POWER_ON and RGBC_INT_EN have the values the specification gives; the   *)
(* other masks are single bits, distinct within their register, as in the  *)
(* device's register map.  Registers and the device address are symbolic.  *)

POWER_ON == 1

RGBC_EN == 2

WAIT_EN == 8

RGBC_INT_EN == 16

WLONG == 2

DEVICE_ADDRESS == "DEVICE_ADDRESS"

Register ==
    {"ENABLE", "ATIME", "WTIME", "AILTL", "AILTH", "AIHTL", "AIHTH",
     "APERS", "CONFIG", "CONTROL"}

RgbCGain == {"_1x", "_4x", "_16x", "_60x"}

RgbCInterruptPersistence ==
    {"Every", "Any", "_2", "_3", "_5", "_10", "_15", "_20", "_25", "_30",
     "_35", "_40", "_45", "_50", "_55", "_60"}

\* Result<(), Error<E>>
Ok == "Ok"

ErrI2C == "I2C"

ErrInvalidInputData == "InvalidInputData"

\* the driver as constructed: cached enable value 0, nothing sent yet
new == [enable |-> 0, i2c |-> [sent |-> <<>>, will |-> <<>>]]

----------------------------------------------------------------------------
(* The methods of impl Tcs3400<I2C>.  Each yields [self, res]: the driver  *)
(* after the call and the value returned.                                  *)

\* One bus transaction [register, value] to DEVICE_ADDRESS; the transport's
\* outcome is the next one of i2c.will; a failure is returned as Error::I2C.
write_register(self, register, value) ==
    LET ok == Head(self.i2c.will)
        tx == [addr |-> DEVICE_ADDRESS, bytes |-> <<register, value>>, ok |-> ok]
    IN  [self |-> [self EXCEPT !.i2c = [sent |-> Append(self.i2c.sent, tx),
                                        will |-> Tail(self.i2c.will)]],
         res  |-> IF ok THEN Ok ELSE ErrI2C]

\* faulty variant: the cache is set before the write is known to succeed
write_enable_eager(self, enable) ==
    write_register([self EXCEPT !.enable = enable], "ENABLE", enable)

write_enable(self, enable) ==
    LET w == write_register(self, "ENABLE", enable)
    IN  IF w.res # Ok THEN w
        ELSE [self |-> [w.self EXCEPT !.enable = enable], res |-> Ok]

enable(self) == write_enable(self, BitOr(self.enable, POWER_ON))

\* faulty variant: the mask is not inverted
disable_keeps_only_bit(self) ==
    write_enable(self, BitAnd(self.enable, POWER_ON))

disable(self) == write_enable(self, BitAnd(self.enable, BitNot(POWER_ON)))

\* faulty variant: the register is written without going through the cache
enable_rgbc_uncached(self) ==
    write_register(self, "ENABLE", BitOr(self.enable, RGBC_EN))

enable_rgbc(self) == write_enable(self, BitOr(self.enable, RGBC_EN))

disable_rgbc(self) == write_enable(self, BitAnd(self.enable, BitNot(RGBC_EN)))

\* faulty variant: the bit is written alone, not merged into the cached value
enable_rgbc_interrupts_bit_only(self) == write_enable(self, RGBC_INT_EN)

enable_rgbc_interrupts(self) ==
    write_enable(self, BitOr(self.enable, RGBC_INT_EN))

disable_rgbc_interrupts(self) ==
    write_enable(self, BitAnd(self.enable, BitNot(RGBC_INT_EN)))

enable_wait(self) == write_enable(self, BitOr(self.enable, WAIT_EN))

disable_wait(self) == write_enable(self, BitAnd(self.enable, BitNot(WAIT_EN)))

\* faulty variant: one's complement instead of two's complement
set_wait_cycles_ones_complement(self, cycles) ==
    IF cycles > 256 \/ cycles = 0
    THEN [self |-> self, res |-> ErrInvalidInputData]
    ELSE write_register(self, "WTIME", AsU8(SubU16(255, cycles)))

set_wait_cycles(self, cycles) ==
    IF cycles > 256 \/ cycles = 0
    THEN [self |-> self, res |-> ErrInvalidInputData]
    ELSE write_register(self, "WTIME", AsU8(SubU16(256, cycles)))

\* faulty variant: the bit is merged into the cached enable value
enable_wait_long_merged(self) ==
    write_register(self, "CONFIG", BitOr(self.enable, WLONG))

enable_wait_long(self) == write_register(self, "CONFIG", WLONG)

\* faulty variant: the body of disable_wait
disable_wait_long_as_disable_wait(self) ==
    write_enable(self, BitAnd(self.enable, BitNot(WAIT_EN)))

disable_wait_long(self) == write_register(self, "CONFIG", 0)

\* faulty variant: two gains share a code
set_rgbc_gain_shared_code(self, gain) ==
    CASE gain = "_1x"  -> write_register(self, "CONTROL", 0)
      [] gain = "_4x"  -> write_register(self, "CONTROL", 1)
      [] gain = "_16x" -> write_register(self, "CONTROL", 2)
      [] gain = "_60x" -> write_register(self, "CONTROL", 2)

set_rgbc_gain(self, gain) ==
    CASE gain = "_1x"  -> write_register(self, "CONTROL", 0)
      [] gain = "_4x"  -> write_register(self, "CONTROL", 1)
      [] gain = "_16x" -> write_register(self, "CONTROL", 2)
      [] gain = "_60x" -> write_register(self, "CONTROL", 3)

\* faulty variant: zero is not refused
set_integration_cycles_accepts_zero(self, cycles) ==
    IF cycles > 256
    THEN [self |-> self, res |-> ErrInvalidInputData]
    ELSE write_register(self, "ATIME", AsU8(SubU16(256, cycles)))

set_integration_cycles(self, cycles) ==
    IF cycles > 256 \/ cycles = 0
    THEN [self |-> self, res |-> ErrInvalidInputData]
    ELSE write_register(self, "ATIME", AsU8(SubU16(256, cycles)))

\* faulty variant: the result of the first write is dropped
set_rgbc_interrupt_low_threshold_no_return(self, threshold) ==
    LET w == write_register(self, "AILTL", AsU8(threshold))
    IN  write_register(w.self, "AILTH", AsU8(Shr8(threshold)))

set_rgbc_interrupt_low_threshold(self, threshold) ==
    LET w == write_register(self, "AILTL", AsU8(threshold))
    IN  IF w.res # Ok THEN w
        ELSE write_register(w.self, "AILTH", AsU8(Shr8(threshold)))

set_rgbc_interrupt_high_threshold(self, threshold) ==
    LET w == write_register(self, "AIHTL", AsU8(threshold))
    IN  IF w.res # Ok THEN w
        ELSE write_register(w.self, "AIHTH", AsU8(Shr8(threshold)))

set_rgbc_interrupt_persistence(self, persistence) ==
    CASE persistence = "Every" -> write_register(self, "APERS", 0)
      [] persistence = "Any"   -> write_register(self, "APERS", 1)
      [] persistence = "_2"    -> write_register(self, "APERS", 2)
      [] persistence = "_3"    -> write_register(self, "APERS", 3)
      [] persistence = "_5"    -> write_register(self, "APERS", 4)
      [] persistence = "_10"   -> write_register(self, "APERS", 5)
      [] persistence = "_15"   -> write_register(self, "APERS", 6)
      [] persistence = "_20"   -> write_register(self, "APERS", 7)
      [] persistence = "_25"   -> write_register(self, "APERS", 8)
      [] persistence = "_30"   -> write_register(self, "APERS", 9)
      [] persistence = "_35"   -> write_register(self, "APERS", 10)
      [] persistence = "_40"   -> write_register(self, "APERS", 11)
      [] persistence = "_45"   -> write_register(self, "APERS", 12)
      [] persistence = "_50"   -> write_register(self, "APERS", 13)
      [] persistence = "_55"   -> write_register(self, "APERS", 14)
      [] persistence = "_60"   -> write_register(self, "APERS", 15)

----------------------------------------------------------------------------
(* The environment: the application calling the driver, and the transport  *)
(* deciding the outcome of each transaction.                               *)

\* u16 arguments tried for the cycle counts: both edges of 1..=256, the
\* values around them and the ends of the type
CycleInputs == {0, 1, 2, 128, 255, 256, 257, 512, 65535}

\* u16 arguments tried for the thresholds: low byte only, high byte only,
\* both, and the ends of the type
ThresholdInputs == {0, 255, 256, 4660, 43981, 65280, 65535}

\* the transport's outcomes for the one or two transactions of a call
OneOutcome == {<<ok>> : ok \in BOOLEAN}

TwoOutcomes == {<<ok1, ok2>> : ok1, ok2 \in BOOLEAN}

EnableOps ==
    {"enable", "disable", "enable_rgbc", "disable_rgbc",
     "enable_rgbc_interrupts", "disable_rgbc_interrupts",
     "enable_wait", "disable_wait"}

OtherOps ==
    {"set_wait_cycles", "set_integration_cycles", "enable_wait_long",
     "disable_wait_long", "set_rgbc_gain", "set_rgbc_interrupt_low_threshold",
     "set_rgbc_interrupt_high_threshold", "set_rgbc_interrupt_persistence"}

NoArg == "-"

NoCall == [op |-> "none", arg |-> NoArg, before |-> 0, sent |-> <<>>, res |-> Ok]

\* the driver at the start of a call: an empty transaction list and the
\* outcomes the transport will give during the call
Entering(will) == [tcs3400 EXCEPT !.i2c = [sent |-> <<>>, will |-> will]]

\* the byte of the last successful ENABLE transaction of sent, else old
RECURSIVE LastEnableWrite(_, _)
LastEnableWrite(sent, old) ==
    IF sent = <<>> THEN old
    ELSE LET tx == sent[Len(sent)]
         IN  IF tx.ok /\ tx.bytes[1] = "ENABLE" THEN tx.bytes[2]
             ELSE LastEnableWrite(SubSeq(sent, 1, Len(sent) - 1), old)

\* the call has returned out = [self, res]
Returns(op, arg, out) ==
    /\ tcs3400' = [out.self EXCEPT !.i2c.will = <<>>]
    /\ enable_reg' = LastEnableWrite(out.self.i2c.sent, enable_reg)
    /\ last' = [op |-> op, arg |-> arg, before |-> tcs3400.enable,
                sent |-> out.self.i2c.sent, res |-> out.res]
    /\ prev' = IF last.op \in EnableOps THEN last ELSE NoCall

CallEnable ==
    \E will \in OneOutcome : Returns("enable", NoArg, enable(Entering(will)))

CallDisable ==
    \E will \in OneOutcome : Returns("disable", NoArg, disable(Entering(will)))

CallEnableRgbc ==
    \E will \in OneOutcome :
        Returns("enable_rgbc", NoArg, enable_rgbc(Entering(will)))

CallDisableRgbc ==
    \E will \in OneOutcome :
        Returns("disable_rgbc", NoArg, disable_rgbc(Entering(will)))

CallEnableRgbcInterrupts ==
    \E will \in OneOutcome :
        Returns("enable_rgbc_interrupts", NoArg,
                enable_rgbc_interrupts(Entering(will)))

CallDisableRgbcInterrupts ==
    \E will \in OneOutcome :
        Returns("disable_rgbc_interrupts", NoArg,
                disable_rgbc_interrupts(Entering(will)))

CallEnableWait ==
    \E will \in OneOutcome :
        Returns("enable_wait", NoArg, enable_wait(Entering(will)))

CallDisableWait ==
    \E will \in OneOutcome :
        Returns("disable_wait", NoArg, disable_wait(Entering(will)))

SetWaitCycles(inputs) ==
    \E cycles \in inputs, will \in OneOutcome :
        Returns("set_wait_cycles", cycles,
                set_wait_cycles(Entering(will), cycles))

CallSetWaitCycles == SetWaitCycles(CycleInputs)

CallEnableWaitLong ==
    \E will \in OneOutcome :
        Returns("enable_wait_long", NoArg, enable_wait_long(Entering(will)))

CallDisableWaitLong ==
    \E will \in OneOutcome :
        Returns("disable_wait_long", NoArg, disable_wait_long(Entering(will)))

CallSetRgbcGain ==
    \E gain \in RgbCGain, will \in OneOutcome :
        Returns("set_rgbc_gain", gain, set_rgbc_gain(Entering(will), gain))

SetIntegrationCycles(inputs) ==
    \E cycles \in inputs, will \in OneOutcome :
        Returns("set_integration_cycles", cycles,
                set_integration_cycles(Entering(will), cycles))

CallSetIntegrationCycles == SetIntegrationCycles(CycleInputs)

SetRgbcInterruptLowThreshold(inputs) ==
    \E threshold \in inputs, will \in TwoOutcomes :
        Returns("set_rgbc_interrupt_low_threshold", threshold,
                set_rgbc_interrupt_low_threshold(Entering(will), threshold))

CallSetRgbcInterruptLowThreshold ==
    SetRgbcInterruptLowThreshold(ThresholdInputs)

SetRgbcInterruptHighThreshold(inputs) ==
    \E threshold \in inputs, will \in TwoOutcomes :
        Returns("set_rgbc_interrupt_high_threshold", threshold,
                set_rgbc_interrupt_high_threshold(Entering(will), threshold))

CallSetRgbcInterruptHighThreshold ==
    SetRgbcInterruptHighThreshold(ThresholdInputs)

CallSetRgbcInterruptPersistence ==
    \E persistence \in RgbCInterruptPersistence, will \in OneOutcome :
        Returns("set_rgbc_interrupt_persistence", persistence,
                set_rgbc_interrupt_persistence(Entering(will), persistence))

Init ==
    /\ tcs3400 = new
    /\ enable_reg = new.enable
    /\ last = NoCall
    /\ prev = NoCall

Next ==
    \/ CallEnable
    \/ CallDisable
    \/ CallEnableRgbc
    \/ CallDisableRgbc
    \/ CallEnableRgbcInterrupts
    \/ CallDisableRgbcInterrupts
    \/ CallEnableWait
    \/ CallDisableWait
    \/ CallSetWaitCycles
    \/ CallEnableWaitLong
    \/ CallDisableWaitLong
    \/ CallSetRgbcGain
    \/ CallSetIntegrationCycles
    \/ CallSetRgbcInterruptLowThreshold
    \/ CallSetRgbcInterruptHighThreshold
    \/ CallSetRgbcInterruptPersistence

Spec == Init /\ [][Next]_vars

(* The methods taking a u16, called once on the driver as constructed with *)
(* every value of the type.                                                *)

U16 == 0 .. 65535

FirstSetWaitCycles == last = NoCall /\ SetWaitCycles(U16)

FirstSetIntegrationCycles == last = NoCall /\ SetIntegrationCycles(U16)

FirstSetRgbcInterruptLowThreshold ==
    last = NoCall /\ SetRgbcInterruptLowThreshold(U16)

FirstSetRgbcInterruptHighThreshold ==
    last = NoCall /\ SetRgbcInterruptHighThreshold(U16)

NextU16 ==
    \/ FirstSetWaitCycles
    \/ FirstSetIntegrationCycles
    \/ FirstSetRgbcInterruptLowThreshold
    \/ FirstSetRgbcInterruptHighThreshold

SpecU16 == Init /\ [][NextU16]_vars

----------------------------------------------------------------------------
(* Properties.                                                             *)

\* the transaction [register, value] to the device
IsWrite(tx, register, value) ==
    /\ tx.addr = DEVICE_ADDRESS
    /\ tx.bytes = <<register, value>>

\* bit k of byte x
Bit(x, k) == (x \div (2 ^ k)) % 2

CyclesOps == {"set_wait_cycles", "set_integration_cycles"}

\* C1: the cached enable value equals the byte of the most recent successful
\* write to the ENABLE register, or the initial value when none has succeeded,
\* after any sequence of calls with any outcomes of the bus writes.
C1_CacheIsLastEnableWrite == tcs3400.enable = enable_reg

\* a failed ENABLE write of another byte, after an earlier one succeeded
C1_Witness ==
    /\ last.op \in EnableOps
    /\ last.res = ErrI2C
    /\ tcs3400.enable # new.enable
    /\ last.sent[1].bytes[2] # tcs3400.enable

\* C2: an ENABLE toggle attempts exactly one write; when that write fails the
\* call returns the transport error and the cached value is what it was.
C2_FailedToggleKeepsCache ==
    last.op \in EnableOps =>
        /\ Len(last.sent) = 1
        /\ last.sent[1].bytes[1] = "ENABLE"
        /\ ~last.sent[1].ok =>
               /\ last.res = ErrI2C
               /\ tcs3400.enable = last.before

\* a toggle that would have changed the cache, and failed
C2_Witness ==
    /\ last.op = "enable_rgbc"
    /\ ~last.sent[1].ok
    /\ last.before = POWER_ON
    /\ last.sent[1].bytes[2] # last.before

\* C3: a cycle count of 0 or above 256 is refused with the invalid-input
\* error, without any bus write and without a change of the cached value.
C3_InvalidCyclesNoWrite ==
    (last.op \in CyclesOps /\ (last.arg = 0 \/ last.arg > 256)) =>
        /\ last.res = ErrInvalidInputData
        /\ last.sent = <<>>
        /\ tcs3400.enable = last.before

\* zero cycles refused while ENABLE bits are cached
C3_Witness ==
    /\ last.op = "set_integration_cycles"
    /\ last.arg = 0
    /\ last.res = ErrInvalidInputData
    /\ last.before = 27

\* C4: a cycle count in 1..256 is sent as one write of (256 - cycles) mod 256,
\* to WTIME by set_wait_cycles and to ATIME by set_integration_cycles; 256 is
\* sent as 0x00 and 1 as 0xFF.
C4_CyclesEncoding ==
    (last.op \in CyclesOps /\ 1 <= last.arg /\ last.arg <= 256) =>
        /\ Len(last.sent) = 1
        /\ IsWrite(last.sent[1],
                   IF last.op = "set_wait_cycles" THEN "WTIME" ELSE "ATIME",
                   (256 - last.arg) % 256)
        /\ last.arg = 256 => last.sent[1].bytes[2] = 0
        /\ last.arg = 1 => last.sent[1].bytes[2] = 255

\* 256 cycles sent to ATIME
C4_Witness ==
    /\ last.op = "set_integration_cycles"
    /\ last.arg = 256
    /\ last.res = Ok
    /\ last.sent = <<[addr |-> DEVICE_ADDRESS, bytes |-> <<"ATIME", 0>>,
                      ok |-> TRUE]>>

\* C5: a threshold t is sent as its low byte to the ...L register and then,
\* in a second transaction, its high byte to the ...H register; when the
\* first write fails the second is not attempted and the error is returned.
C5_ThresholdLowThenHigh ==
    \A op \in {"set_rgbc_interrupt_low_threshold",
               "set_rgbc_interrupt_high_threshold"} :
        last.op = op =>
            LET t  == last.arg
                lo == IF op = "set_rgbc_interrupt_low_threshold"
                      THEN "AILTL" ELSE "AIHTL"
                hi == IF op = "set_rgbc_interrupt_low_threshold"
                      THEN "AILTH" ELSE "AIHTH"
            IN  /\ Len(last.sent) >= 1
                /\ IsWrite(last.sent[1], lo, t % 256)
                /\ last.sent[1].ok =>
                       /\ Len(last.sent) = 2
                       /\ IsWrite(last.sent[2], hi, (t \div 256) % 256)
                       /\ last.res = IF last.sent[2].ok THEN Ok ELSE ErrI2C
                /\ ~last.sent[1].ok =>
                       /\ Len(last.sent) = 1
                       /\ last.res = ErrI2C

\* a low-byte write that failed, for a threshold with both bytes set
C5_Witness ==
    /\ last.op = "set_rgbc_interrupt_low_threshold"
    /\ last.arg = 4660
    /\ Len(last.sent) = 1
    /\ ~last.sent[1].ok

\* C6: with all writes succeeding, enable() after enable() leaves the cached
\* value of the first call, and disable() after enable() leaves the value
\* from before the two calls with the POWER_ON bit cleared and every other
\* bit as it was.
C6_EnableIdempotentDisableClears ==
    (prev.op = "enable" /\ prev.res = Ok /\ last.res = Ok) =>
        /\ last.op = "enable" => tcs3400.enable = last.before
        /\ last.op = "disable" =>
               \A k \in 0 .. 7 :
                   Bit(tcs3400.enable, k) =
                       IF Bit(POWER_ON, k) = 1 THEN 0 ELSE Bit(prev.before, k)

\* enable() then disable() from a cache holding other bits
C6_Witness ==
    /\ prev.op = "enable"
    /\ prev.res = Ok
    /\ prev.before = 26
    /\ last.op = "disable"
    /\ last.res = Ok

\* C7: from a cached value of 0x00, with POWER_ON = 0x01 and
\* RGBC_INT_EN = 0x10 and all writes succeeding, enable() then
\* enable_rgbc_interrupts() send [ENABLE, 0x01] then [ENABLE, 0x11], and
\* nothing else, and leave the cached value at 0x11.
C7_EnableThenInterrupts ==
    (/\ POWER_ON = 1
     /\ RGBC_INT_EN = 16
     /\ prev.op = "enable"
     /\ prev.before = 0
     /\ prev.res = Ok
     /\ last.op = "enable_rgbc_interrupts"
     /\ last.res = Ok) =>
        /\ Len(prev.sent) = 1
        /\ IsWrite(prev.sent[1], "ENABLE", 1)
        /\ Len(last.sent) = 1
        /\ IsWrite(last.sent[1], "ENABLE", 17)
        /\ tcs3400.enable = 17

\* the two calls made on the driver as constructed
C7_Witness ==
    /\ prev.op = "enable"
    /\ prev.before = 0
    /\ prev.res = Ok
    /\ last.op = "enable_rgbc_interrupts"
    /\ last.res = Ok

\* C8: enable_wait_long() sends exactly the WLONG bit and
\* disable_wait_long() exactly 0 to CONFIG, whatever the cached enable value
\* and whatever was done before.
C8_WaitLongOverwrites ==
    /\ last.op = "enable_wait_long" =>
           /\ Len(last.sent) = 1
           /\ IsWrite(last.sent[1], "CONFIG", WLONG)
    /\ last.op = "disable_wait_long" =>
           /\ Len(last.sent) = 1
           /\ IsWrite(last.sent[1], "CONFIG", 0)

\* enable_wait_long() succeeding while every ENABLE bit is cached
C8_Witness ==
    /\ last.op = "enable_wait_long"
    /\ last.res = Ok
    /\ last.before = 27

\* the persistence levels in their defined order
PersistenceOrder ==
    <<"Every", "Any", "_2", "_3", "_5", "_10", "_15", "_20", "_25", "_30",
      "_35", "_40", "_45", "_50", "_55", "_60">>

GainOrder == <<"_1x", "_4x", "_16x", "_60x">>

\* C9: set_rgbc_gain sends one write to CONTROL with code 0, 1, 2, 3 for
\* x1, x4, x16, x60, and set_rgbc_interrupt_persistence one write to APERS
\* with codes 0 to 15 over the sixteen levels in their defined order.
C9_EnumCodes ==
    /\ last.op = "set_rgbc_gain" =>
           /\ Len(last.sent) = 1
           /\ \E i \in 1 .. 4 :
                  /\ GainOrder[i] = last.arg
                  /\ IsWrite(last.sent[1], "CONTROL", i - 1)
    /\ last.op = "set_rgbc_interrupt_persistence" =>
           /\ Len(last.sent) = 1
           /\ \E i \in 1 .. 16 :
                  /\ PersistenceOrder[i] = last.arg
                  /\ IsWrite(last.sent[1], "APERS", i - 1)

\* the last persistence level sent
C9_Witness ==
    /\ last.op = "set_rgbc_interrupt_persistence"
    /\ last.arg = "_60"
    /\ last.res = Ok
    /\ last.sent[1].bytes = <<"APERS", 15>>

\* C10: a method that does not target ENABLE leaves the cached enable value
\* as it was and sends nothing to the ENABLE register, whatever its input
\* and whatever the outcomes of its writes.
C10_OtherOpsFrame ==
    last.op \in OtherOps =>
        /\ tcs3400.enable = last.before
        /\ \A i \in 1 .. Len(last.sent) : last.sent[i].bytes[1] # "ENABLE"

\* a threshold call whose second write failed, with ENABLE bits cached
C10_Witness ==
    /\ last.op = "set_rgbc_interrupt_high_threshold"
    /\ Len(last.sent) = 2
    /\ ~last.sent[2].ok
    /\ last.before = 27

====
